---- MODULE Spec2Model ----
(***************************************************************************)
(* WebServerWithFallbackCommChannel                                        *)
(* (src/traits/networking/web_sever_libp2p_fallback.rs): a communication   *)
(* channel over a shared pair of networks, (WebServerNetwork,              *)
(* Libp2pNetwork), that falls back to the second network when the first    *)
(* fails.                                                                  *)
(*                                                                         *)
(* Every async fn of the channel is modelled by one action per stretch of  *)
(* code between two of its .await points: the step an .await resumes with  *)
(* takes the outcome of the awaited call, which the network chooses, and   *)
(* runs to the next .await or to the return.  A call handed to a network   *)
(* is "pending" until then.                                                *)
(***************************************************************************)
EXTENDS Integers, Sequences, FiniteSets, TLC

----------------------------------------------------------------------------
(* Bounds of the model *)

\* distinct NetworkError values a network may return
NumErrors == 2
\* view numbers a message may carry
NumViews == 2
\* signature keys (node identities)
NumKeys == 2
\* Membership instances a caller may pass to broadcast_message
NumElections == 1
\* longest message list a network's recv_msgs returns
MaxMsgs == 1

\* the channel handles: the one new() constructs and a clone of it
Handles == {"channel", "clone"}
NetworkError == 1..NumErrors
Views == 1..NumViews
Keys == 1..NumKeys
Elections == 1..NumElections

----------------------------------------------------------------------------
(* Values *)

\* Message<TYPES, I>: an opaque payload and the view number it is about
Message == [view : Views]
NoMessage == [view |-> 0]

\* TransmitType
TransmitType == {"Broadcast", "Direct"}

\* (u64, bool, bool)
ConsensusInfo == Views \X {FALSE} \X BOOLEAN

\* every value a call can produce has the same shape, so that any two compare
NoValue == [tag |-> "none", err |-> 0, msgs |-> << >>]
Unit == [tag |-> "unit", err |-> 0, msgs |-> << >>]
Bool(b) == [tag |-> IF b THEN "true" ELSE "false", err |-> 0, msgs |-> << >>]
Ok(msgs) == [tag |-> "Ok", err |-> 0, msgs |-> msgs]
Err(e) == [tag |-> "Err", err |-> e, msgs |-> << >>]
OkUnit == Ok(<< >>)

IsOk(r) == r.tag = "Ok"
IsErr(r) == r.tag = "Err"

\* Vec<Message>, up to MaxMsgs long
MsgLists == UNION {[1..n -> Message] : n \in 0..MaxMsgs}

\* Result<(), NetworkError> and Result<Vec<Message>, NetworkError>
UnitResults == {OkUnit} \cup {Err(e) : e \in NetworkError}
MsgResults == {Ok(l) : l \in MsgLists} \cup {Err(e) : e \in NetworkError}

\* the arguments of a call, of the channel or of a network
NoArgs ==
    [message |-> NoMessage, election |-> 0, recipients |-> {}, recipient |-> 0,
     transmit_type |-> "none", pk |-> 0, tuple |-> <<0, FALSE, FALSE>>]

\* message.get_view_number()
get_view_number(message) == message.view

\* <MEMBERSHIP as Membership<TYPES>>::get_committee(election, view): the
\* committee of a view, which differs from view to view and from election to
\* election and may be empty
get_committee(election, view) == {k \in Keys : k + view <= election + 1}

----------------------------------------------------------------------------
(* State *)

VARIABLES
    networks,   \* per handle: the Arc it holds (NullArc: no such handle yet)
    op,         \* per handle: the channel operation in progress or returned
    pc,         \* per handle: where that operation stands
    args,       \* per handle: the arguments of that operation
    net,        \* per handle: the operation's call on self.network()
    fb,         \* per handle: the operation's call on self.fallback()
    ret         \* per handle: the value the operation returned

vars == <<networks, op, pc, args, net, fb, ret>>

NullArc == "null"
\* the one Arc<(WebServerNetwork, Libp2pNetwork)> handed to new()
TheArc == "networks"

\* a call on one network within one channel operation:
\*   st   "none" (not begun), "pending" (begun, not settled), "done"
\*   n    how many times the operation began a call on this network
\*   on   the network instance it went to
\*   what the network method called
\*   arg  the arguments passed, res the outcome once settled
NoCall ==
    [st |-> "none", n |-> 0, on |-> <<NullArc, 0>>, what |-> "none",
     arg |-> NoArgs, res |-> NoValue]

Begin(call, on, what, arg) ==
    [st |-> "pending", n |-> call.n + 1, on |-> on, what |-> what,
     arg |-> arg, res |-> NoValue]

Settled(call, res) == [call EXCEPT !.st = "done", !.res = res]

\* self.network(): &self.networks.0
network(h) == <<networks[h], 0>>
\* self.fallback(): &self.networks.1
fallback(h) == <<networks[h], 1>>

----------------------------------------------------------------------------
(* Construction and clones *)

\* WebServerWithFallbackCommChannel::new(networks), as generate_network calls
\* it: one handle holding the Arc; nothing is in progress
Init ==
    /\ networks = [h \in Handles |-> IF h = "channel" THEN TheArc ELSE NullArc]
    /\ op = [h \in Handles |-> "none"]
    /\ pc = [h \in Handles |-> "idle"]
    /\ args = [h \in Handles |-> NoArgs]
    /\ net = [h \in Handles |-> NoCall]
    /\ fb = [h \in Handles |-> NoCall]
    /\ ret = [h \in Handles |-> NoValue]

\* faulty variant of Clone: the pair is duplicated, the new handle holds an
\* Arc of its own
Clone_Copy(h, new) ==
    /\ networks[h] # NullArc
    /\ networks[new] = NullArc
    /\ networks' = [networks EXCEPT ![new] = "copy"]
    /\ UNCHANGED <<op, pc, args, net, fb, ret>>

\* #[derive(Clone)]: the new handle holds a clone of the Arc, h's own pair
Clone(h, new) ==
    /\ networks[h] # NullArc
    /\ networks[new] = NullArc
    /\ networks' = [networks EXCEPT ![new] = networks[h]]
    /\ UNCHANGED <<op, pc, args, net, fb, ret>>

----------------------------------------------------------------------------
(* Steps shared by the operations *)

\* the handle exists and its caller has no operation in progress
CanCall(h) == networks[h] # NullArc /\ pc[h] \in {"idle", "returned"}

\* a new operation: nothing of the previous one is kept
Enter(h, name, a) ==
    /\ CanCall(h)
    /\ op' = [op EXCEPT ![h] = name]
    /\ args' = [args EXCEPT ![h] = a]
    /\ ret' = [ret EXCEPT ![h] = NoValue]
    /\ UNCHANGED networks

\* operation name of h is suspended at position p
At(h, name, p) == op[h] = name /\ pc[h] = p

\* the operation returns r to its caller
Return(h, r) ==
    /\ ret' = [ret EXCEPT ![h] = r]
    /\ pc' = [pc EXCEPT ![h] = "returned"]

\* the operation suspends at position p
Suspend(h, p) ==
    /\ pc' = [pc EXCEPT ![h] = p]
    /\ UNCHANGED ret

----------------------------------------------------------------------------
(* wait_for_ready *)

\* faulty variant of WaitForReady_Call: both waits are begun together, a join
WaitForReady_Call_Join(h) ==
    /\ Enter(h, "wait_for_ready", NoArgs)
    /\ pc' = [pc EXCEPT ![h] = "await_network"]
    /\ net' = [net EXCEPT ![h] = Begin(NoCall, network(h), "wait_for_ready", NoArgs)]
    /\ fb' = [fb EXCEPT ![h] = Begin(NoCall, fallback(h), "wait_for_ready", NoArgs)]

\* self.network().wait_for_ready() is called and awaited
WaitForReady_Call(h) ==
    /\ Enter(h, "wait_for_ready", NoArgs)
    /\ pc' = [pc EXCEPT ![h] = "await_network"]
    /\ net' = [net EXCEPT ![h] = Begin(NoCall, network(h), "wait_for_ready", NoArgs)]
    /\ fb' = [fb EXCEPT ![h] = NoCall]

\* the network's wait resolves: self.fallback().wait_for_ready() is called
\* and awaited
WaitForReady_Fallback(h) ==
    /\ At(h, "wait_for_ready", "await_network")
    /\ net[h].st = "pending"
    /\ net' = [net EXCEPT ![h] = Settled(net[h], Unit)]
    /\ fb' = [fb EXCEPT ![h] = Begin(fb[h], fallback(h), "wait_for_ready", NoArgs)]
    /\ Suspend(h, "await_fallback")
    /\ UNCHANGED <<networks, op, args>>

\* the fallback's wait resolves: wait_for_ready returns its ()
WaitForReady_Return(h) ==
    /\ At(h, "wait_for_ready", "await_fallback")
    /\ fb[h].st = "pending"
    /\ fb' = [fb EXCEPT ![h] = Settled(fb[h], Unit)]
    /\ Return(h, Unit)
    /\ UNCHANGED <<networks, op, args, net>>

----------------------------------------------------------------------------
(* is_ready *)

\* self.network().is_ready() is called and awaited
IsReady_Call(h) ==
    /\ Enter(h, "is_ready", NoArgs)
    /\ pc' = [pc EXCEPT ![h] = "await_network"]
    /\ net' = [net EXCEPT ![h] = Begin(NoCall, network(h), "is_ready", NoArgs)]
    /\ fb' = [fb EXCEPT ![h] = NoCall]

\* faulty variant of IsReady_False: & in place of &&, the fallback is asked
\* whatever the network answered
IsReady_False_NoShortCircuit(h) ==
    /\ At(h, "is_ready", "await_network")
    /\ net[h].st = "pending"
    /\ net' = [net EXCEPT ![h] = Settled(net[h], Bool(FALSE))]
    /\ fb' = [fb EXCEPT ![h] = Begin(fb[h], fallback(h), "is_ready", NoArgs)]
    /\ Return(h, Bool(FALSE))
    /\ UNCHANGED <<networks, op, args>>

\* the network answers false: && does not evaluate its right operand
IsReady_False(h) ==
    /\ At(h, "is_ready", "await_network")
    /\ net[h].st = "pending"
    /\ net' = [net EXCEPT ![h] = Settled(net[h], Bool(FALSE))]
    /\ Return(h, Bool(FALSE))
    /\ UNCHANGED <<networks, op, args, fb>>

\* faulty variant of IsReady_Fallback: the network's answer alone is returned
IsReady_Fallback_NetworkOnly(h) ==
    /\ At(h, "is_ready", "await_network")
    /\ net[h].st = "pending"
    /\ net' = [net EXCEPT ![h] = Settled(net[h], Bool(TRUE))]
    /\ Return(h, Bool(TRUE))
    /\ UNCHANGED <<networks, op, args, fb>>

\* the network answers true: self.fallback().is_ready() is called and awaited
IsReady_Fallback(h) ==
    /\ At(h, "is_ready", "await_network")
    /\ net[h].st = "pending"
    /\ net' = [net EXCEPT ![h] = Settled(net[h], Bool(TRUE))]
    /\ fb' = [fb EXCEPT ![h] = Begin(fb[h], fallback(h), "is_ready", NoArgs)]
    /\ Suspend(h, "await_fallback")
    /\ UNCHANGED <<networks, op, args>>

\* the fallback answers b, the value of &&
IsReady_Return(h, b) ==
    /\ At(h, "is_ready", "await_fallback")
    /\ fb[h].st = "pending"
    /\ fb' = [fb EXCEPT ![h] = Settled(fb[h], Bool(b))]
    /\ Return(h, Bool(b))
    /\ UNCHANGED <<networks, op, args, net>>

----------------------------------------------------------------------------
(* shut_down *)

\* self.network().shut_down() is called and awaited
ShutDown_Call(h) ==
    /\ Enter(h, "shut_down", NoArgs)
    /\ pc' = [pc EXCEPT ![h] = "await_network"]
    /\ net' = [net EXCEPT ![h] = Begin(NoCall, network(h), "shut_down", NoArgs)]
    /\ fb' = [fb EXCEPT ![h] = NoCall]

\* faulty variant of ShutDown_Fallback: shut_down returns once the network is
\* shut down, the fallback is left running
ShutDown_Fallback_Skip(h) ==
    /\ At(h, "shut_down", "await_network")
    /\ net[h].st = "pending"
    /\ net' = [net EXCEPT ![h] = Settled(net[h], Unit)]
    /\ Return(h, Unit)
    /\ UNCHANGED <<networks, op, args, fb>>

\* the network's shutdown completes: self.fallback().shut_down() is called
\* and awaited
ShutDown_Fallback(h) ==
    /\ At(h, "shut_down", "await_network")
    /\ net[h].st = "pending"
    /\ net' = [net EXCEPT ![h] = Settled(net[h], Unit)]
    /\ fb' = [fb EXCEPT ![h] = Begin(fb[h], fallback(h), "shut_down", NoArgs)]
    /\ Suspend(h, "await_fallback")
    /\ UNCHANGED <<networks, op, args>>

\* the fallback's shutdown completes: shut_down returns ()
ShutDown_Return(h) ==
    /\ At(h, "shut_down", "await_fallback")
    /\ fb[h].st = "pending"
    /\ fb' = [fb EXCEPT ![h] = Settled(fb[h], Unit)]
    /\ Return(h, Unit)
    /\ UNCHANGED <<networks, op, args, net>>

----------------------------------------------------------------------------
(* broadcast_message *)

\* faulty variant of BroadcastMessage_Call: with no recipient nothing is sent
BroadcastMessage_Call_SkipEmpty(h, message, election) ==
    LET recipients == get_committee(election, get_view_number(message))
        sent == [NoArgs EXCEPT !.message = message, !.recipients = recipients]
    IN  /\ CanCall(h)
        /\ op' = [op EXCEPT ![h] = "broadcast_message"]
        /\ args' = [args EXCEPT ![h] =
                      [NoArgs EXCEPT !.message = message, !.election = election]]
        /\ UNCHANGED networks
        /\ IF recipients = {}
           THEN /\ Return(h, OkUnit)
                /\ fb' = [fb EXCEPT ![h] = NoCall]
                /\ net' = [net EXCEPT ![h] = NoCall]
           ELSE /\ Suspend(h, "await_join")
                /\ fb' = [fb EXCEPT ![h] =
                            Begin(NoCall, fallback(h), "broadcast_message", sent)]
                /\ net' = [net EXCEPT ![h] =
                             Begin(NoCall, network(h), "broadcast_message", sent)]

\* the recipients are computed; both sends are made and handed to join!, which
\* polls the fallback's, then the network's, and suspends
BroadcastMessage_Call(h, message, election) ==
    LET recipients == get_committee(election, get_view_number(message))
        sent == [NoArgs EXCEPT !.message = message, !.recipients = recipients]
    IN  /\ Enter(h, "broadcast_message",
                 [NoArgs EXCEPT !.message = message, !.election = election])
        /\ pc' = [pc EXCEPT ![h] = "await_join"]
        /\ fb' = [fb EXCEPT ![h] = Begin(NoCall, fallback(h), "broadcast_message", sent)]
        /\ net' = [net EXCEPT ![h] = Begin(NoCall, network(h), "broadcast_message", sent)]

\* faulty variant of JoinReady: a race, complete as soon as either future is
JoinReady_Either(fallback_call, network_call) ==
    fallback_call.st = "done" \/ network_call.st = "done"

\* join!(fallback, network) completes when both futures have completed
JoinReady(fallback_call, network_call) ==
    fallback_call.st = "done" /\ network_call.st = "done"

\* faulty variant of BroadcastMatch: the tuple's fields taken in the other
\* order, so that the network's error is the one returned
BroadcastMatch_NetworkError(fallback_res, network_res) ==
    IF IsErr(fallback_res) /\ IsErr(network_res) THEN Err(network_res.err) ELSE OkUnit

\* match (fallback's result, network's result):
\*   (Err(e), Err(_)) => Err(e),  _ => Ok(())
BroadcastMatch(fallback_res, network_res) ==
    IF IsErr(fallback_res) /\ IsErr(network_res) THEN Err(fallback_res.err) ELSE OkUnit

\* the join is polled with the calls as they now stand: it stays suspended, or
\* completes and broadcast_message returns the value of the match
BroadcastMessage_Join(h, fallback_call, network_call) ==
    IF JoinReady(fallback_call, network_call)
    THEN Return(h, BroadcastMatch(fallback_call.res, network_call.res))
    ELSE Suspend(h, "await_join")

\* the fallback's send settles with r
BroadcastMessage_Fallback(h, r) ==
    /\ At(h, "broadcast_message", "await_join")
    /\ fb[h].st = "pending"
    /\ fb' = [fb EXCEPT ![h] = Settled(fb[h], r)]
    /\ BroadcastMessage_Join(h, Settled(fb[h], r), net[h])
    /\ UNCHANGED <<networks, op, args, net>>

\* the network's send settles with r
BroadcastMessage_Network(h, r) ==
    /\ At(h, "broadcast_message", "await_join")
    /\ net[h].st = "pending"
    /\ net' = [net EXCEPT ![h] = Settled(net[h], r)]
    /\ BroadcastMessage_Join(h, fb[h], Settled(net[h], r))
    /\ UNCHANGED <<networks, op, args, fb>>

----------------------------------------------------------------------------
(* direct_message *)

\* faulty variant of DirectMessage_Call: a sticky switch, the call goes
\* straight to the fallback when the last call seen on a handle found the
\* network failing
DirectMessage_Call_Sticky(h, message, recipient) ==
    LET a == [NoArgs EXCEPT !.message = message, !.recipient = recipient]
    IN  /\ Enter(h, "direct_message", a)
        /\ IF \E g \in Handles : IsErr(net[g].res)
           THEN /\ pc' = [pc EXCEPT ![h] = "await_fallback"]
                /\ net' = [net EXCEPT ![h] = NoCall]
                /\ fb' = [fb EXCEPT ![h] = Begin(NoCall, fallback(h), "direct_message", a)]
           ELSE /\ pc' = [pc EXCEPT ![h] = "await_network"]
                /\ net' = [net EXCEPT ![h] = Begin(NoCall, network(h), "direct_message", a)]
                /\ fb' = [fb EXCEPT ![h] = NoCall]

\* self.network().direct_message(message.clone(), recipient.clone()) is
\* called and awaited
DirectMessage_Call(h, message, recipient) ==
    LET a == [NoArgs EXCEPT !.message = message, !.recipient = recipient]
    IN  /\ Enter(h, "direct_message", a)
        /\ pc' = [pc EXCEPT ![h] = "await_network"]
        /\ net' = [net EXCEPT ![h] = Begin(NoCall, network(h), "direct_message", a)]
        /\ fb' = [fb EXCEPT ![h] = NoCall]

\* the network returns Ok:  Ok(_) => Ok(())
DirectMessage_Ok(h) ==
    /\ At(h, "direct_message", "await_network")
    /\ net[h].st = "pending"
    /\ net' = [net EXCEPT ![h] = Settled(net[h], OkUnit)]
    /\ Return(h, OkUnit)
    /\ UNCHANGED <<networks, op, args, fb>>

\* faulty variant of DirectMessage_Err: the fallback is handed the message
\* without the recipient the network was given
DirectMessage_Err_DropRecipient(h, e) ==
    /\ At(h, "direct_message", "await_network")
    /\ net[h].st = "pending"
    /\ net' = [net EXCEPT ![h] = Settled(net[h], Err(e))]
    /\ fb' = [fb EXCEPT ![h] =
                Begin(fb[h], fallback(h), "direct_message",
                      [NoArgs EXCEPT !.message = args[h].message])]
    /\ Suspend(h, "await_fallback")
    /\ UNCHANGED <<networks, op, args>>

\* the network returns Err(e):  Err(e) => self.fallback().direct_message(
\* message, recipient) is called and awaited
DirectMessage_Err(h, e) ==
    /\ At(h, "direct_message", "await_network")
    /\ net[h].st = "pending"
    /\ net' = [net EXCEPT ![h] = Settled(net[h], Err(e))]
    /\ fb' = [fb EXCEPT ![h] =
                Begin(fb[h], fallback(h), "direct_message",
                      [NoArgs EXCEPT !.message = args[h].message,
                                     !.recipient = args[h].recipient])]
    /\ Suspend(h, "await_fallback")
    /\ UNCHANGED <<networks, op, args>>

\* faulty variant of DirectMessage_Return: when the fallback fails too, the
\* error e of the network is returned
DirectMessage_Return_FirstError(h, r) ==
    /\ At(h, "direct_message", "await_fallback")
    /\ fb[h].st = "pending"
    /\ fb' = [fb EXCEPT ![h] = Settled(fb[h], r)]
    /\ Return(h, IF IsErr(r) THEN net[h].res ELSE r)
    /\ UNCHANGED <<networks, op, args, net>>

\* the fallback returns r, the value of the match arm and of the function
DirectMessage_Return(h, r) ==
    /\ At(h, "direct_message", "await_fallback")
    /\ fb[h].st = "pending"
    /\ fb' = [fb EXCEPT ![h] = Settled(fb[h], r)]
    /\ Return(h, r)
    /\ UNCHANGED <<networks, op, args, net>>

----------------------------------------------------------------------------
(* recv_msgs *)

\* faulty variant of RecvMsgs_Call: both networks are asked at once
RecvMsgs_Call_Both(h, transmit_type) ==
    LET a == [NoArgs EXCEPT !.transmit_type = transmit_type]
    IN  /\ Enter(h, "recv_msgs", a)
        /\ pc' = [pc EXCEPT ![h] = "await_network"]
        /\ net' = [net EXCEPT ![h] = Begin(NoCall, network(h), "recv_msgs", a)]
        /\ fb' = [fb EXCEPT ![h] = Begin(NoCall, fallback(h), "recv_msgs", a)]

\* self.network().recv_msgs(transmit_type.clone()) is called and awaited
RecvMsgs_Call(h, transmit_type) ==
    LET a == [NoArgs EXCEPT !.transmit_type = transmit_type]
    IN  /\ Enter(h, "recv_msgs", a)
        /\ pc' = [pc EXCEPT ![h] = "await_network"]
        /\ net' = [net EXCEPT ![h] = Begin(NoCall, network(h), "recv_msgs", a)]
        /\ fb' = [fb EXCEPT ![h] = NoCall]

\* faulty variant of RecvMsgs_Ok: an empty list counts as a failure of the
\* network, and the fallback is asked
RecvMsgs_Ok_EmptyFallsBack(h, msgs) ==
    /\ At(h, "recv_msgs", "await_network")
    /\ net[h].st = "pending"
    /\ net' = [net EXCEPT ![h] = Settled(net[h], Ok(msgs))]
    /\ IF msgs = << >>
       THEN /\ fb' = [fb EXCEPT ![h] =
                        Begin(fb[h], fallback(h), "recv_msgs",
                              [NoArgs EXCEPT !.transmit_type = args[h].transmit_type])]
            /\ Suspend(h, "await_fallback")
       ELSE /\ Return(h, Ok(msgs))
            /\ UNCHANGED fb
    /\ UNCHANGED <<networks, op, args>>

\* faulty variant of RecvMsgs_Ok: the fallback is asked as well, and its
\* messages are what is returned
RecvMsgs_Ok_AskFallback(h, msgs) ==
    /\ At(h, "recv_msgs", "await_network")
    /\ net[h].st = "pending"
    /\ net' = [net EXCEPT ![h] = Settled(net[h], Ok(msgs))]
    /\ fb' = [fb EXCEPT ![h] =
                Begin(fb[h], fallback(h), "recv_msgs",
                      [NoArgs EXCEPT !.transmit_type = args[h].transmit_type])]
    /\ Suspend(h, "await_fallback")
    /\ UNCHANGED <<networks, op, args>>

\* the network returns Ok(msgs):  Ok(msgs) => Ok(msgs)
RecvMsgs_Ok(h, msgs) ==
    /\ At(h, "recv_msgs", "await_network")
    /\ net[h].st = "pending"
    /\ net' = [net EXCEPT ![h] = Settled(net[h], Ok(msgs))]
    /\ Return(h, Ok(msgs))
    /\ UNCHANGED <<networks, op, args, fb>>

\* faulty variant of RecvMsgs_Err: the network's error is propagated, as by ?
RecvMsgs_Err_Propagate(h, e) ==
    /\ At(h, "recv_msgs", "await_network")
    /\ net[h].st = "pending"
    /\ net' = [net EXCEPT ![h] = Settled(net[h], Err(e))]
    /\ Return(h, Err(e))
    /\ UNCHANGED <<networks, op, args, fb>>

\* the network returns Err(e):  Err(e) => self.fallback().recv_msgs(
\* transmit_type) is called and awaited
RecvMsgs_Err(h, e) ==
    /\ At(h, "recv_msgs", "await_network")
    /\ net[h].st = "pending"
    /\ net' = [net EXCEPT ![h] = Settled(net[h], Err(e))]
    /\ fb' = [fb EXCEPT ![h] =
                Begin(fb[h], fallback(h), "recv_msgs",
                      [NoArgs EXCEPT !.transmit_type = args[h].transmit_type])]
    /\ Suspend(h, "await_fallback")
    /\ UNCHANGED <<networks, op, args>>

\* the fallback returns r, the value of the match arm and of the function
RecvMsgs_Return(h, r) ==
    /\ At(h, "recv_msgs", "await_fallback")
    /\ fb[h].st = "pending"
    /\ fb' = [fb EXCEPT ![h] = Settled(fb[h], r)]
    /\ Return(h, r)
    /\ UNCHANGED <<networks, op, args, net>>

----------------------------------------------------------------------------
(* lookup_node *)

\* self.network().lookup_node(pk.clone()) is called and awaited
LookupNode_Call(h, pk) ==
    LET a == [NoArgs EXCEPT !.pk = pk]
    IN  /\ Enter(h, "lookup_node", a)
        /\ pc' = [pc EXCEPT ![h] = "await_network"]
        /\ net' = [net EXCEPT ![h] = Begin(NoCall, network(h), "lookup_node", a)]
        /\ fb' = [fb EXCEPT ![h] = NoCall]

\* the network returns Ok(()):  Ok(msgs) => Ok(msgs)
LookupNode_Ok(h) ==
    /\ At(h, "lookup_node", "await_network")
    /\ net[h].st = "pending"
    /\ net' = [net EXCEPT ![h] = Settled(net[h], OkUnit)]
    /\ Return(h, OkUnit)
    /\ UNCHANGED <<networks, op, args, fb>>

\* faulty variant of LookupNode_Err: the error is returned, with no fallback
LookupNode_Err_NoFallback(h, e) ==
    /\ At(h, "lookup_node", "await_network")
    /\ net[h].st = "pending"
    /\ net' = [net EXCEPT ![h] = Settled(net[h], Err(e))]
    /\ Return(h, Err(e))
    /\ UNCHANGED <<networks, op, args, fb>>

\* the network returns Err(e):  Err(e) => self.fallback().lookup_node(pk) is
\* called and awaited
LookupNode_Err(h, e) ==
    /\ At(h, "lookup_node", "await_network")
    /\ net[h].st = "pending"
    /\ net' = [net EXCEPT ![h] = Settled(net[h], Err(e))]
    /\ fb' = [fb EXCEPT ![h] =
                Begin(fb[h], fallback(h), "lookup_node",
                      [NoArgs EXCEPT !.pk = args[h].pk])]
    /\ Suspend(h, "await_fallback")
    /\ UNCHANGED <<networks, op, args>>

\* faulty variant of LookupNode_Return: when the fallback fails too, the
\* network is tried again
LookupNode_Return_Retry(h, r) ==
    /\ At(h, "lookup_node", "await_fallback")
    /\ fb[h].st = "pending"
    /\ fb' = [fb EXCEPT ![h] = Settled(fb[h], r)]
    /\ IF IsErr(r)
       THEN /\ net' = [net EXCEPT ![h] =
                         Begin(net[h], network(h), "lookup_node",
                               [NoArgs EXCEPT !.pk = args[h].pk])]
            /\ Suspend(h, "await_network")
       ELSE /\ Return(h, r)
            /\ UNCHANGED net
    /\ UNCHANGED <<networks, op, args>>

\* the fallback returns r, the value of the match arm and of the function
LookupNode_Return(h, r) ==
    /\ At(h, "lookup_node", "await_fallback")
    /\ fb[h].st = "pending"
    /\ fb' = [fb EXCEPT ![h] = Settled(fb[h], r)]
    /\ Return(h, r)
    /\ UNCHANGED <<networks, op, args, net>>

----------------------------------------------------------------------------
(* inject_consensus_info *)

\* ConnectedNetwork::inject_consensus_info(self.network(), tuple) is called
\* and awaited
InjectConsensusInfo_Call(h, tuple) ==
    LET a == [NoArgs EXCEPT !.tuple = tuple]
    IN  /\ Enter(h, "inject_consensus_info", a)
        /\ pc' = [pc EXCEPT ![h] = "await_network"]
        /\ net' = [net EXCEPT ![h] = Begin(NoCall, network(h), "inject_consensus_info", a)]
        /\ fb' = [fb EXCEPT ![h] = NoCall]

\* faulty variant of InjectConsensusInfo_Return: an error of the network makes
\* the call fall back, as in lookup_node
InjectConsensusInfo_Return_Fallback(h, r) ==
    /\ At(h, "inject_consensus_info", "await_network")
    /\ net[h].st = "pending"
    /\ net' = [net EXCEPT ![h] = Settled(net[h], r)]
    /\ IF IsErr(r)
       THEN /\ fb' = [fb EXCEPT ![h] =
                        Begin(fb[h], fallback(h), "inject_consensus_info", args[h])]
            /\ Return(h, r)
       ELSE /\ Return(h, r)
            /\ UNCHANGED fb
    /\ UNCHANGED <<networks, op, args>>

\* the network returns r, the value of the function
InjectConsensusInfo_Return(h, r) ==
    /\ At(h, "inject_consensus_info", "await_network")
    /\ net[h].st = "pending"
    /\ net' = [net EXCEPT ![h] = Settled(net[h], r)]
    /\ Return(h, r)
    /\ UNCHANGED <<networks, op, args, fb>>

----------------------------------------------------------------------------
(* The specification *)

Next ==
    \/ \E h \in Handles, new \in Handles : Clone(h, new)
    \/ \E h \in Handles : WaitForReady_Call(h)
    \/ \E h \in Handles : WaitForReady_Fallback(h)
    \/ \E h \in Handles : WaitForReady_Return(h)
    \/ \E h \in Handles : IsReady_Call(h)
    \/ \E h \in Handles : IsReady_False(h)
    \/ \E h \in Handles : IsReady_Fallback(h)
    \/ \E h \in Handles, b \in BOOLEAN : IsReady_Return(h, b)
    \/ \E h \in Handles : ShutDown_Call(h)
    \/ \E h \in Handles : ShutDown_Fallback(h)
    \/ \E h \in Handles : ShutDown_Return(h)
    \/ \E h \in Handles, message \in Message, election \in Elections :
          BroadcastMessage_Call(h, message, election)
    \/ \E h \in Handles, r \in UnitResults : BroadcastMessage_Fallback(h, r)
    \/ \E h \in Handles, r \in UnitResults : BroadcastMessage_Network(h, r)
    \/ \E h \in Handles, message \in Message, recipient \in Keys :
          DirectMessage_Call(h, message, recipient)
    \/ \E h \in Handles : DirectMessage_Ok(h)
    \/ \E h \in Handles, e \in NetworkError : DirectMessage_Err(h, e)
    \/ \E h \in Handles, r \in UnitResults : DirectMessage_Return(h, r)
    \/ \E h \in Handles, transmit_type \in TransmitType : RecvMsgs_Call(h, transmit_type)
    \/ \E h \in Handles, msgs \in MsgLists : RecvMsgs_Ok(h, msgs)
    \/ \E h \in Handles, e \in NetworkError : RecvMsgs_Err(h, e)
    \/ \E h \in Handles, r \in MsgResults : RecvMsgs_Return(h, r)
    \/ \E h \in Handles, pk \in Keys : LookupNode_Call(h, pk)
    \/ \E h \in Handles : LookupNode_Ok(h)
    \/ \E h \in Handles, e \in NetworkError : LookupNode_Err(h, e)
    \/ \E h \in Handles, r \in UnitResults : LookupNode_Return(h, r)
    \/ \E h \in Handles, tuple \in ConsensusInfo : InjectConsensusInfo_Call(h, tuple)
    \/ \E h \in Handles, r \in UnitResults : InjectConsensusInfo_Return(h, r)

Spec == Init /\ [][Next]_vars

\* a network settles the call h's operation awaits, and the operation runs on
Progress(h) ==
    \/ WaitForReady_Fallback(h)
    \/ WaitForReady_Return(h)
    \/ IsReady_False(h)
    \/ IsReady_Fallback(h)
    \/ \E b \in BOOLEAN : IsReady_Return(h, b)
    \/ ShutDown_Fallback(h)
    \/ ShutDown_Return(h)
    \/ \E r \in UnitResults : BroadcastMessage_Fallback(h, r)
    \/ \E r \in UnitResults : BroadcastMessage_Network(h, r)
    \/ DirectMessage_Ok(h)
    \/ \E e \in NetworkError : DirectMessage_Err(h, e)
    \/ \E r \in UnitResults : DirectMessage_Return(h, r)
    \/ \E msgs \in MsgLists : RecvMsgs_Ok(h, msgs)
    \/ \E e \in NetworkError : RecvMsgs_Err(h, e)
    \/ \E r \in MsgResults : RecvMsgs_Return(h, r)
    \/ LookupNode_Ok(h)
    \/ \E e \in NetworkError : LookupNode_Err(h, e)
    \/ \E r \in UnitResults : LookupNode_Return(h, r)
    \/ \E r \in UnitResults : InjectConsensusInfo_Return(h, r)

\* the channel with networks that settle every call made on them: a call that
\* is awaited does not stay pending for ever
\* the handles whose caller makes every call of the trait; the caller of the
\* other handle makes the calls without arguments (wait_for_ready, is_ready,
\* shut_down), which interleave with them
FullCallers == {"channel"}

\* Next with the calls that take arguments made on FullCallers only: the
\* behaviour graph stays small enough for the search for fair cycles
FairNext ==
    \/ \E h \in Handles, new \in Handles : Clone(h, new)
    \/ \E h \in Handles : WaitForReady_Call(h)
    \/ \E h \in Handles : WaitForReady_Fallback(h)
    \/ \E h \in Handles : WaitForReady_Return(h)
    \/ \E h \in Handles : IsReady_Call(h)
    \/ \E h \in Handles : IsReady_False(h)
    \/ \E h \in Handles : IsReady_Fallback(h)
    \/ \E h \in Handles, b \in BOOLEAN : IsReady_Return(h, b)
    \/ \E h \in Handles : ShutDown_Call(h)
    \/ \E h \in Handles : ShutDown_Fallback(h)
    \/ \E h \in Handles : ShutDown_Return(h)
    \/ \E h \in FullCallers, message \in Message, election \in Elections :
          BroadcastMessage_Call(h, message, election)
    \/ \E h \in Handles, r \in UnitResults : BroadcastMessage_Fallback(h, r)
    \/ \E h \in Handles, r \in UnitResults : BroadcastMessage_Network(h, r)
    \/ \E h \in FullCallers, message \in Message, recipient \in Keys :
          DirectMessage_Call(h, message, recipient)
    \/ \E h \in Handles : DirectMessage_Ok(h)
    \/ \E h \in Handles, e \in NetworkError : DirectMessage_Err(h, e)
    \/ \E h \in Handles, r \in UnitResults : DirectMessage_Return(h, r)
    \/ \E h \in FullCallers, transmit_type \in TransmitType : RecvMsgs_Call(h, transmit_type)
    \/ \E h \in Handles, msgs \in MsgLists : RecvMsgs_Ok(h, msgs)
    \/ \E h \in Handles, e \in NetworkError : RecvMsgs_Err(h, e)
    \/ \E h \in Handles, r \in MsgResults : RecvMsgs_Return(h, r)
    \/ \E h \in FullCallers, pk \in Keys : LookupNode_Call(h, pk)
    \/ \E h \in Handles : LookupNode_Ok(h)
    \/ \E h \in Handles, e \in NetworkError : LookupNode_Err(h, e)
    \/ \E h \in Handles, r \in UnitResults : LookupNode_Return(h, r)
    \/ \E h \in FullCallers, tuple \in ConsensusInfo : InjectConsensusInfo_Call(h, tuple)
    \/ \E h \in Handles, r \in UnitResults : InjectConsensusInfo_Return(h, r)

\* every transport call that was issued settles: weak fairness of each
\* handle's Progress
FairSpec == Init /\ [][FairNext]_vars /\ \A h \in Handles : WF_vars(Progress(h))

----------------------------------------------------------------------------
(* Properties *)

\* operation name of h has returned, and h's caller has not called again
Returned(h, name) == op[h] = name /\ pc[h] = "returned"

\* the operations that try the network and then, if it failed, the fallback
Sequential == {"direct_message", "recv_msgs", "lookup_node"}

\* C1: broadcast_message returns Ok(()) unless both sends returned Err, and
\* then it returns the error of the fallback's (the secondary's) send, not
\* that of the network's (the primary's).
C1_BroadcastResult ==
    \A h \in Handles :
        Returned(h, "broadcast_message") =>
            IF IsErr(net[h].res) /\ IsErr(fb[h].res)
            THEN ret[h] = fb[h].res
            ELSE ret[h] = OkUnit /\ (IsOk(net[h].res) \/ IsOk(fb[h].res))

\* both sends failed, with different errors, and the fallback's was returned
C1_Witness ==
    \E h \in Handles :
        /\ Returned(h, "broadcast_message")
        /\ net[h].res = Err(1)
        /\ fb[h].res = Err(2)
        /\ ret[h] = Err(2)

\* C2: a broadcast_message call sends on each network exactly once, and has
\* not returned while either send is pending, whichever settled first and
\* whatever it settled with.
C2_BroadcastJoin ==
    \A h \in Handles :
        op[h] = "broadcast_message" =>
            /\ net[h].n = 1 /\ net[h].what = "broadcast_message"
            /\ fb[h].n = 1 /\ fb[h].what = "broadcast_message"
            /\ pc[h] = "returned" <=> (net[h].st = "done" /\ fb[h].st = "done")
            /\ pc[h] # "returned" => ret[h] = NoValue

\* the network's send has succeeded, the fallback's is pending, and the call
\* has not returned
C2_Witness ==
    \E h \in Handles :
        /\ At(h, "broadcast_message", "await_join")
        /\ net[h].st = "done" /\ IsOk(net[h].res)
        /\ fb[h].st = "pending"
        /\ ret[h] = NoValue

\* C3: direct_message: when the network returns Ok the fallback is not
\* called and the result is Ok(()); when the network returns Err the
\* fallback is called exactly once and its result is the call's result.
C3_DirectMessageFallback ==
    \A h \in Handles :
        (op[h] = "direct_message" /\ net[h].st = "done") =>
            IF IsOk(net[h].res)
            THEN fb[h].n = 0 /\ fb[h].st = "none" /\ Returned(h, "direct_message")
                 /\ ret[h] = OkUnit
            ELSE /\ IsErr(net[h].res)
                 /\ fb[h].n = 1 /\ fb[h].what = "direct_message"
                 /\ pc[h] = "returned" => (fb[h].st = "done" /\ ret[h] = fb[h].res)

\* the network failed, the fallback succeeded: Ok(()) after one fallback call
C3_Witness ==
    \E h \in Handles :
        /\ Returned(h, "direct_message")
        /\ IsErr(net[h].res)
        /\ fb[h].n = 1 /\ fb[h].res = OkUnit
        /\ ret[h] = OkUnit

\* C4: recv_msgs returns the result of one network: the network's list, with
\* the fallback not called, when the network returns Ok; the fallback's result
\* for the same transmit type when the network returns Err.
C4_RecvMsgsOneNetwork ==
    \A h \in Handles :
        (op[h] = "recv_msgs" /\ net[h].st = "done") =>
            IF IsOk(net[h].res)
            THEN fb[h].n = 0 /\ fb[h].st = "none" /\ Returned(h, "recv_msgs")
                 /\ ret[h] = net[h].res
            ELSE /\ IsErr(net[h].res)
                 /\ fb[h].n = 1 /\ fb[h].what = "recv_msgs"
                 /\ fb[h].arg.transmit_type = net[h].arg.transmit_type
                 /\ pc[h] = "returned" => (fb[h].st = "done" /\ ret[h] = fb[h].res)

\* the network failed and the fallback's messages were returned
C4_Witness ==
    \E h \in Handles :
        /\ Returned(h, "recv_msgs")
        /\ IsErr(net[h].res)
        /\ IsOk(fb[h].res) /\ Len(fb[h].res.msgs) > 0
        /\ ret[h] = fb[h].res

\* C5: lookup_node: the network's Ok gives Ok(()) with no call of the
\* fallback; the network's Err gives exactly one lookup_node call of the
\* fallback, whose result is returned as it is.
C5_LookupNodeFallback ==
    \A h \in Handles :
        (op[h] = "lookup_node" /\ net[h].st = "done") =>
            IF IsOk(net[h].res)
            THEN fb[h].n = 0 /\ fb[h].st = "none" /\ Returned(h, "lookup_node")
                 /\ ret[h] = OkUnit
            ELSE /\ IsErr(net[h].res)
                 /\ fb[h].n = 1 /\ fb[h].what = "lookup_node"
                 /\ pc[h] = "returned" => (fb[h].st = "done" /\ ret[h] = fb[h].res)

\* the network failed, the fallback failed with another error, which was
\* returned
C5_Witness ==
    \E h \in Handles :
        /\ Returned(h, "lookup_node")
        /\ net[h].res = Err(1)
        /\ fb[h].n = 1 /\ fb[h].res = Err(2)
        /\ ret[h] = Err(2)

\* C6: in direct_message, recv_msgs and lookup_node the network is called
\* exactly once, the fallback at most once and never before the network's
\* call has settled: the two are never pending together.
C6_SequentialFallback ==
    \A h \in Handles :
        op[h] \in Sequential =>
            /\ net[h].n = 1 /\ net[h].st # "none"
            /\ fb[h].n <= 1
            /\ fb[h].st # "none" => net[h].st = "done"
            /\ ~(net[h].st = "pending" /\ fb[h].st = "pending")

\* the fallback's call is pending, after the network's has failed
C6_Witness ==
    \E h \in Handles :
        /\ op[h] \in Sequential
        /\ pc[h] = "await_fallback"
        /\ net[h].st = "done" /\ IsErr(net[h].res)
        /\ fb[h].st = "pending"

\* C7: inject_consensus_info calls the network exactly once and the fallback
\* never, and returns the network's result, Ok or Err.
C7_InjectNetworkOnly ==
    \A h \in Handles :
        op[h] = "inject_consensus_info" =>
            /\ net[h].n = 1 /\ net[h].what = "inject_consensus_info"
            /\ net[h].arg.tuple = args[h].tuple
            /\ fb[h].n = 0 /\ fb[h].st = "none"
            /\ pc[h] = "returned" <=> net[h].st = "done"
            /\ pc[h] = "returned" => ret[h] = net[h].res

\* the network failed and its error was returned
C7_Witness ==
    \E h \in Handles :
        /\ Returned(h, "inject_consensus_info")
        /\ IsErr(net[h].res)
        /\ ret[h] = net[h].res

\* C8: is_ready returns the conjunction of the two networks' readiness: of
\* their answers when both were asked, and of the network's answer with either
\* readiness of a fallback that was not asked.
C8_IsReadyAnd ==
    \A h \in Handles :
        Returned(h, "is_ready") =>
            /\ net[h].st = "done"
            /\ IF fb[h].st = "done"
               THEN ret[h] = Bool(net[h].res = Bool(TRUE) /\ fb[h].res = Bool(TRUE))
               ELSE \A secondary \in BOOLEAN :
                        ret[h] = Bool(net[h].res = Bool(TRUE) /\ secondary)

\* the network is ready, the fallback is not: false
C8_Witness ==
    \E h \in Handles :
        /\ Returned(h, "is_ready")
        /\ net[h].res = Bool(TRUE)
        /\ fb[h].res = Bool(FALSE)
        /\ ret[h] = Bool(FALSE)

\* C9, as claimed: every is_ready call asks both networks, whatever the
\* network answers.
C9_IsReadyAsksBoth ==
    \A h \in Handles :
        Returned(h, "is_ready") => (net[h].n = 1 /\ fb[h].n = 1)

\* C9, amended: every is_ready call asks the network, exactly once and anew;
\* it asks the fallback, exactly once, if and only if the network answered
\* true; when the network answers false it returns false without asking the
\* fallback.
C9_IsReadyShortCircuit ==
    \A h \in Handles :
        op[h] = "is_ready" =>
            /\ net[h].n = 1 /\ net[h].what = "is_ready"
            /\ fb[h].n <= 1
            /\ net[h].st = "done" =>
                  /\ fb[h].n = 1 <=> net[h].res = Bool(TRUE)
                  /\ net[h].res = Bool(FALSE) => (Returned(h, "is_ready") /\ ret[h] = Bool(FALSE))

\* the network answered false and is_ready returned with the fallback not asked
C9_Witness ==
    \E h \in Handles :
        /\ Returned(h, "is_ready")
        /\ net[h].res = Bool(FALSE)
        /\ fb[h].n = 0

\* C10: wait_for_ready returns only when both waits have resolved, and the
\* fallback's wait begins only when the network's has resolved: while the
\* network's is pending the fallback's has not begun and the call has not
\* returned.
C10_WaitForReadySequential ==
    \A h \in Handles :
        op[h] = "wait_for_ready" =>
            /\ net[h].n = 1 /\ net[h].what = "wait_for_ready"
            /\ fb[h].n <= 1
            /\ net[h].st = "pending" => (fb[h].st = "none" /\ pc[h] # "returned")
            /\ fb[h].st # "none" => (net[h].st = "done" /\ fb[h].what = "wait_for_ready")
            /\ pc[h] = "returned" <=> (net[h].st = "done" /\ fb[h].st = "done")

\* wait_for_ready has returned, both waits resolved
C10_Witness ==
    \E h \in Handles :
        /\ Returned(h, "wait_for_ready")
        /\ net[h].st = "done"
        /\ fb[h].st = "done" /\ fb[h].n = 1


\* C11: shut_down shuts the network down and then, once that has completed,
\* the fallback, each exactly once; the fallback's shutdown follows whatever
\* the network's did, and shut_down returns (), never an error.
C11_ShutDownSequential ==
    \A h \in Handles :
        op[h] = "shut_down" =>
            /\ net[h].n = 1 /\ net[h].what = "shut_down"
            /\ fb[h].n <= 1
            /\ net[h].st = "pending" => (fb[h].st = "none" /\ pc[h] # "returned")
            /\ net[h].st = "done" => (fb[h].n = 1 /\ fb[h].what = "shut_down")
            /\ pc[h] = "returned" <=> (net[h].st = "done" /\ fb[h].st = "done")
            /\ pc[h] = "returned" => ret[h] = Unit

\* shut_down has returned (), both networks shut down once
C11_Witness ==
    \E h \in Handles :
        /\ Returned(h, "shut_down")
        /\ net[h].n = 1 /\ net[h].st = "done"
        /\ fb[h].n = 1 /\ fb[h].st = "done"
        /\ ret[h] = Unit

\* the operations that return a Result and may use the fallback
Fallible == {"broadcast_message", "direct_message", "recv_msgs", "lookup_node"}

\* C12: when broadcast_message, direct_message, recv_msgs or lookup_node
\* returns Err(e), both networks were called in that call, both returned Err,
\* and Err(e) is what the fallback returned; where the two errors differ it is
\* not the network's.
C12_ErrorIsFallbacks ==
    \A h \in Handles :
        (op[h] \in Fallible /\ pc[h] = "returned" /\ ~IsOk(ret[h])) =>
            /\ IsErr(ret[h]) /\ ret[h].err \in NetworkError
            /\ net[h].n = 1 /\ net[h].st = "done" /\ IsErr(net[h].res)
            /\ fb[h].n = 1 /\ fb[h].st = "done" /\ IsErr(fb[h].res)
            /\ ret[h] = fb[h].res
            /\ net[h].res # fb[h].res => ret[h] # net[h].res

\* recv_msgs returned the fallback's error, which is not the network's
C12_Witness ==
    \E h \in Handles :
        /\ Returned(h, "recv_msgs")
        /\ net[h].res = Err(2)
        /\ fb[h].res = Err(1)
        /\ ret[h] = Err(1)

\* C13: broadcast_message passes both networks the same message, the one it
\* was given, and the same recipients, the committee the Membership gives for
\* the message's view; with an empty committee both sends are made all the same.
C13_BroadcastSameArguments ==
    \A h \in Handles :
        op[h] = "broadcast_message" =>
            /\ net[h].n = 1 /\ fb[h].n = 1
            /\ net[h].arg = fb[h].arg
            /\ net[h].arg.message = args[h].message
            /\ net[h].arg.recipients =
                  get_committee(args[h].election, get_view_number(args[h].message))

\* a broadcast to an empty committee: sent on both networks
C13_Witness ==
    \E h \in Handles :
        /\ op[h] = "broadcast_message"
        /\ net[h].st = "pending" /\ fb[h].st = "pending"
        /\ net[h].arg.recipients = {} /\ fb[h].arg.recipients = {}


\* h's caller makes a call in this step
CallBegins(h) == pc[h] \in {"idle", "returned"} /\ pc'[h] \notin {"idle", "returned"}

\* C14: whatever earlier calls left behind, failures of the network among
\* them, a direct_message, recv_msgs or lookup_node call begins with one call
\* on the network and none on the fallback; and once it has returned its
\* result is a function of the outcomes of that call's own network calls,
\* each network having been called at most once.
C14_NoFailoverState ==
    [][\A h \in Handles :
          /\ (CallBegins(h) /\ op'[h] \in Sequential) =>
                /\ net'[h].st = "pending" /\ net'[h].n = 1
                /\ net'[h].on = <<networks[h], 0>>
                /\ fb'[h] = NoCall
          /\ (op'[h] \in Sequential /\ pc'[h] = "returned") =>
                /\ net'[h].n = 1 /\ fb'[h].n <= 1
                /\ ret'[h] = IF IsOk(net'[h].res) THEN net'[h].res ELSE fb'[h].res
       ]_vars

\* one handle's last call found both networks failing and its caller can call
\* again; a call made through the other handle is waiting for the network,
\* the fallback not called
C14_Witness ==
    \E g \in Handles : \E h \in Handles \ {g} :
        /\ Returned(g, "direct_message")
        /\ IsErr(net[g].res) /\ IsErr(fb[g].res)
        /\ ENABLED DirectMessage_Call(g, [view |-> 1], 1)
        /\ At(h, "recv_msgs", "await_network")
        /\ net[h].st = "pending" /\ net[h].n = 1
        /\ fb[h] = NoCall


\* C15: no step replaces the Arc a handle holds, every handle holds the Arc
\* given to new(), and every call made through any handle, whatever the
\* interleaving, goes to that pair's first network (self.network()) or second
\* (self.fallback()).
C15_PairFixedAndShared ==
    [][\A h \in Handles :
          /\ networks[h] # NullArc => networks'[h] = networks[h]
          /\ networks'[h] \in {NullArc, TheArc}
          /\ net'[h].st # "none" => net'[h].on = <<TheArc, 0>>
          /\ fb'[h].st # "none" => fb'[h].on = <<TheArc, 1>>
       ]_vars

\* calls made through the channel and through its clone are pending together
\* on the same two networks
C15_Witness ==
    \E g \in Handles : \E h \in Handles \ {g} :
        /\ networks[g] = networks[h]
        /\ net[g].st = "pending" /\ net[h].st = "pending"
        /\ net[g].on = net[h].on
        /\ fb[g].st = "pending" /\ fb[h].st = "pending"
        /\ fb[g].on = fb[h].on
        /\ net[g].on # fb[g].on


\* C16: recv_msgs takes any Ok list of the network, the empty one too, as
\* success: it returns that list and makes no call on the fallback, so
\* nothing the fallback holds is returned while the network's recv is Ok.
C16_EmptyOkIsSuccess ==
    \A h \in Handles :
        (op[h] = "recv_msgs" /\ net[h].st = "done" /\ IsOk(net[h].res)) =>
            /\ fb[h] = NoCall
            /\ Returned(h, "recv_msgs")
            /\ ret[h] = Ok(net[h].res.msgs)
            /\ net[h].res.msgs = << >> => ret[h] = Ok(<< >>)

\* the network returned an empty list, which was returned, the fallback not
\* called
C16_Witness ==
    \E h \in Handles :
        /\ Returned(h, "recv_msgs")
        /\ net[h].res = Ok(<< >>)
        /\ ret[h] = Ok(<< >>)
        /\ fb[h].n = 0

\* C17: on fallback, the fallback's method is the one the network was called
\* with and gets the arguments the network got, those of the channel call:
\* message and recipient, transmit type, or key.
C17_FallbackSameArguments ==
    \A h \in Handles :
        op[h] \in Sequential =>
            /\ net[h].what = op[h]
            /\ net[h].arg = args[h]
            /\ fb[h].st # "none" =>
                  /\ fb[h].what = op[h]
                  /\ fb[h].arg = net[h].arg
                  /\ fb[h].arg.message = args[h].message
                  /\ fb[h].arg.recipient = args[h].recipient
                  /\ fb[h].arg.transmit_type = args[h].transmit_type
                  /\ fb[h].arg.pk = args[h].pk

\* a direct_message fell back: the fallback has the message and the recipient
\* the network had
C17_Witness ==
    \E h \in Handles :
        /\ At(h, "direct_message", "await_fallback")
        /\ IsErr(net[h].res)
        /\ fb[h].st = "pending"
        /\ fb[h].arg.message = [view |-> 2] /\ net[h].arg.message = [view |-> 2]
        /\ fb[h].arg.recipient = 2 /\ net[h].arg.recipient = 2


\* h's operation is in progress
Busy(h) == pc[h] \notin {"idle", "returned"}

\* C18: an operation calls each network at most once, two calls in all; while
\* it is in progress it awaits a pending call and it returns only in a step
\* in which a call it awaited settles, none being left pending (there is no
\* timeout); and, the networks settling every call, it does return.
C18_TerminatesWhenCallsSettle ==
    /\ [](\A h \in Handles :
            /\ net[h].n <= 1 /\ fb[h].n <= 1
            /\ Busy(h) => (net[h].st = "pending" \/ fb[h].st = "pending")
            /\ pc[h] = "returned" => (net[h].st # "pending" /\ fb[h].st # "pending"))
    /\ [][\A h \in Handles :
            (Busy(h) /\ pc'[h] = "returned") =>
                \/ net[h].st = "pending" /\ net'[h].st = "done"
                \/ fb[h].st = "pending" /\ fb'[h].st = "done"
         ]_vars
    /\ \A h \in Handles : Busy(h) ~> pc[h] = "returned"

\* an operation returned after one call on each network, while one on the
\* other handle waits for an answer of the fallback that has not settled
C18_Witness ==
    \E g \in Handles : \E h \in Handles \ {g} :
        /\ Returned(g, "lookup_node")
        /\ net[g].n = 1 /\ fb[g].n = 1
        /\ At(h, "is_ready", "await_fallback")
        /\ net[h].st = "done" /\ fb[h].st = "pending"

====
